---------------------------- MODULE Spec2Model ----------------------------
(***************************************************************************)
(* finder-scope: file search / replace engine.                             *)
(*                                                                         *)
(*   FileReplaceService   src/src/services/file_replace_service.py         *)
(*   FileSearchService    src/src/services/file_search_service.py          *)
(*   SearchWorker,                                                         *)
(*   AsyncSearchService   src/src/services/async_search_service.py         *)
(*   ReplaceResult        src/src/models/replace_models.py                 *)
(*   SearchResult         src/src/models/search_models.py                  *)
(*                                                                         *)
(* Text (file content, patterns, file names) is a sequence of one-         *)
(* character strings.  A file system is a function from the names of the   *)
(* existing files to their content.                                        *)
(***************************************************************************)
EXTENDS Integers, Sequences, FiniteSets, TLC

(***************************************************************************)
(* Bounds of the model.                                                    *)
(***************************************************************************)
MaxReplaceCalls == 2
MaxEntries == 3
MaxWorkers == 2
MaxAdds == 4

None == "None"

\* None where a date is expected (dates are naturals)
NoDate == -1

(***************************************************************************)
(* Python str primitives.                                                  *)
(***************************************************************************)
\* str.lower() on one character of the model's alphabet
Lower(c) == IF c = "A" THEN "a" ELSE IF c = "B" THEN "b" ELSE c

LowerStr(s) == [i \in 1..Len(s) |-> Lower(s[i])]

\* text[i .. i+len(pat)-1] == pat   (i is 1-based)
StartsAt(text, pat, i) ==
    /\ i >= 1
    /\ i + Len(pat) - 1 <= Len(text)
    /\ \A k \in 1..Len(pat) : text[i + k - 1] = pat[k]

\* str.endswith
EndsWith(text, suf) == StartsAt(text, suf, Len(text) - Len(suf) + 1)

\* str.find(pat, start): least position >= start where pat occurs, 0 if none
\* (positions are 1-based, Python's -1 is 0 here)
StrFind(text, pat, start) ==
    LET hits == {i \in start..Len(text) : StartsAt(text, pat, i)}
    IN  IF hits = {} THEN 0 ELSE CHOOSE i \in hits : \A j \in hits : i <= j

\* str.count(pat) for a non-empty pat: non-overlapping occurrences, left to right
RECURSIVE CountFrom(_, _, _)
CountFrom(text, pat, start) ==
    LET pos == StrFind(text, pat, start)
    IN  IF pos = 0 THEN 0 ELSE 1 + CountFrom(text, pat, pos + Len(pat))

StrCount(text, pat) == CountFrom(text, pat, 1)

\* str.replace(pat, repl) for a non-empty pat
RECURSIVE ReplaceFrom(_, _, _, _)
ReplaceFrom(text, pat, repl, start) ==
    LET pos == StrFind(text, pat, start)
    IN  IF pos = 0
        THEN SubSeq(text, start, Len(text))
        ELSE SubSeq(text, start, pos - 1) \o repl
                 \o ReplaceFrom(text, pat, repl, pos + Len(pat))

StrReplace(text, pat, repl) == ReplaceFrom(text, pat, repl, 1)

\* f"{n}" for n >= 0
Digit(d) == <<"0", "1", "2", "3", "4", "5", "6", "7", "8", "9">>[d + 1]

RECURSIVE IntStr(_)
IntStr(n) == IF n < 10 THEN <<Digit(n)>> ELSE IntStr(n \div 10) \o <<Digit(n % 10)>>

(***************************************************************************)
(* Python re, for the patterns of the model: a pattern is a sequence of    *)
(* literal characters and "." (any character); an unclosed "[" makes       *)
(* re.compile raise re.error.  re.escape(pattern) matches the pattern's    *)
(* characters literally.                                                   *)
(***************************************************************************)
ReError(pat) == \E i \in 1..Len(pat) : pat[i] = "["

\* one pattern character against one text character
ReCharMatch(pc, c, escaped, ignorecase) ==
    \/ (~escaped /\ pc = ".")
    \/ (IF ignorecase THEN Lower(pc) = Lower(c) ELSE pc = c)

ReMatchAt(text, pat, i, escaped, ignorecase) ==
    /\ i >= 1
    /\ i + Len(pat) - 1 <= Len(text)
    /\ \A k \in 1..Len(pat) : ReCharMatch(pat[k], text[i + k - 1], escaped, ignorecase)

\* re.search from position start: 0 if no match
ReFind(text, pat, start, escaped, ignorecase) ==
    LET hits == {i \in start..Len(text) : ReMatchAt(text, pat, i, escaped, ignorecase)}
    IN  IF hits = {} THEN 0 ELSE CHOOSE i \in hits : \A j \in hits : i <= j

\* re.subn(pat, repl, text): <<new_text, count>>, non-empty pat
RECURSIVE ReSubnFrom(_, _, _, _, _, _)
ReSubnFrom(text, pat, repl, start, escaped, ignorecase) ==
    LET pos == ReFind(text, pat, start, escaped, ignorecase)
    IN  IF pos = 0
        THEN <<SubSeq(text, start, Len(text)), 0>>
        ELSE LET rest == ReSubnFrom(text, pat, repl, pos + Len(pat), escaped, ignorecase)
             IN  <<SubSeq(text, start, pos - 1) \o repl \o rest[1], 1 + rest[2]>>

ReSubn(text, pat, repl, escaped, ignorecase) ==
    ReSubnFrom(text, pat, repl, 1, escaped, ignorecase)

(***************************************************************************)
(* pathlib on a file name (the directory part plays no role in the model). *)
(***************************************************************************)
LastDot(name) ==
    LET dots == {i \in 1..Len(name) : name[i] = "."}
    IN  IF dots = {} THEN 0 ELSE CHOOSE i \in dots : \A j \in dots : j <= i

\* PurePath.suffix
PathSuffix(name) ==
    LET i == LastDot(name)
    IN  IF 1 < i /\ i < Len(name) THEN SubSeq(name, i, Len(name)) ELSE <<>>

\* PurePath.with_suffix raises ValueError("Invalid suffix")
WithSuffixRaises(name, suffix) ==
    \/ (suffix # <<>> /\ suffix[1] # ".")
    \/ suffix = <<".">>
    \/ name = <<>>

\* PurePath.with_suffix
WithSuffix(name, suffix) ==
    SubSeq(name, 1, Len(name) - Len(PathSuffix(name))) \o suffix


(***************************************************************************)
(* State.                                                                  *)
(***************************************************************************)
VARIABLES
    \* ---- FileReplaceService and the files it works on
    fs,             \* file name -> content, for the files that exist
    operation,      \* the ReplaceOperation handed to replace
    r_pc,           \* "idle", "loop" while replace iterates target_files,
                    \* "preview" while preview_replace does
    r_idx,          \* index in target_files of the next file of the loop
    r_cancelled,    \* FileReplaceService.is_cancelled
    result,         \* the ReplaceResult of the current / last replace call
    r_calls,        \* number of replace calls made
    restore_ret,    \* return value of the last restore_from_backup, None before
    restore_arg,    \* its argument
    \* ---- history of the replace calls
    pre_fs,         \* fs when the last replace was called
    bk_src,         \* bk_src[i]: the file result.backup_files[i] was copied from
    last_call,      \* "none", "replace", "restore", "preview": the last call
                    \* that returned
    prev_run,       \* when the current / last replace was called: whether a
                    \* replace had just returned, and the result it returned
    preview_results,\* what preview_replace has collected / returned last
    \* ---- the directory searched and the criteria (FileSearchService, SearchWorker)
    entries,        \* what _get_file_list yields, in order
    listing_raises, \* iterating _get_file_list raises OSError (folder gone)
    criteria,       \* the SearchCriteria
    \* ---- FileSearchService.search called synchronously
    s_pc,           \* "idle", "loop", "scan", "done" (returned), "raised"
    s_idx,          \* index in entries of the next entry of the loop
    s_line,         \* "scan": the next line of the file being scanned
    s_found,        \* "scan": the ContentMatches found so far in that file
    s_cancelled,    \* FileSearchService.is_cancelled
    s_result,       \* the SearchResult
    \* ---- history of the search call
    s_cancel_before,\* cancel() was called before search() was invoked
    s_cancel_at,    \* total_files_scanned when cancel() was first issued during
                    \* the iteration, -1 if it was not
    \* ---- SearchWorker w (a QThread), for each worker
    w_pc,           \* "none" (not constructed), "new" (constructed), "begin"
                    \* (started), "loop", "scan", "post_loop", "fin_check",
                    \* "emit_finished", "exc_check", "emit_error", "done" (run
                    \* returned), "terminated"
    w_idx,          \* index in files of the next entry of the loop
    w_line,         \* "scan": the next line of the file being scanned
    w_found,        \* "scan": the ContentMatches found so far in that file
    w_processed,    \* processed_count
    w_result,       \* the SearchResult being filled
    w_cancelled,    \* SearchWorker._is_cancelled
    w_svc_cancelled,\* SearchWorker.search_service.is_cancelled
    w_signals,      \* the signals emitted, in order
    w_term_req,     \* QThread.terminate() was called on the worker
    \* ---- history of the cancel() calls on worker w
    w_cancel_pc,    \* w_pc when cancel() was first called, "" if it was not
    w_cancel_at,    \* total_files_scanned at that time
    \* ---- AsyncSearchService
    current_worker, \* the worker's number, 0 for None
    a_pc,           \* "idle", or where cancel_search blocks: "wait3000", "wait1000"
    a_call,         \* the call in progress: "none", "start_search", "cancel_search"
    n_workers,      \* number of SearchWorkers constructed
    \* ---- one call of a matching function
    fn_pc,          \* "parked", "ready" (arguments chosen), "applied"
    fn_in,          \* the arguments
    fn_out,         \* the function called and the value it returned
    \* ---- a ReplaceOperation being filled with add_target_file
    built_targets,  \* ReplaceOperation.target_files
    n_adds          \* number of add_target_file calls made

rvars == <<fs, operation, r_pc, r_idx, r_cancelled, result, r_calls,
           restore_ret, restore_arg, pre_fs, bk_src, last_call, prev_run>>

pvars == <<preview_results>>

dvars == <<entries, listing_raises, criteria>>

svars == <<s_pc, s_idx, s_line, s_found, s_cancelled, s_result,
           s_cancel_before, s_cancel_at>>

wvars == <<w_pc, w_idx, w_line, w_found, w_processed, w_result, w_cancelled,
           w_svc_cancelled, w_signals, w_term_req, w_cancel_pc, w_cancel_at>>

avars == <<current_worker, a_pc, a_call, n_workers>>

mvars == <<fn_pc, fn_in, fn_out, built_targets, n_adds>>

vars == <<rvars, pvars, dvars, svars, wvars, avars, mvars>>

\* what the actions of one service leave alone
NotReplace == <<pvars, dvars, svars, wvars, avars, mvars>>
NotPreview == <<dvars, svars, wvars, avars, mvars>>
NotSearch == <<dvars, rvars, pvars, wvars, avars, mvars>>
NotWorker == <<dvars, rvars, pvars, svars, mvars>>
NotModels == <<rvars, pvars, dvars, svars, wvars, avars>>

(***************************************************************************)
(* ReplaceResult (replace_models.py).                                      *)
(***************************************************************************)
EmptyReplaceResult ==
    [processed_files |-> <<>>, failed_files |-> <<>>,
     total_replacements |-> 0, backup_files |-> <<>>]

\* a failure that leaves no trace in the result
add_error_dropped(res, file_path, error_message) == res

add_success(res, file_path, replacement_count, backup_path) ==
    [res EXCEPT !.processed_files = Append(@, file_path),
                !.total_replacements = @ + replacement_count,
                !.backup_files = IF backup_path # None THEN Append(@, backup_path) ELSE @]

add_error(res, file_path, error_message) ==
    [res EXCEPT !.failed_files = Append(@, <<file_path, error_message>>)]

(***************************************************************************)
(* FileReplaceService: the substitution.                                   *)
(***************************************************************************)
\* <<new_text, count>>
simple_replacement(text, pattern, replacement, case_sensitive) ==
    IF ~case_sensitive
    THEN LET count == StrCount(LowerStr(text), LowerStr(pattern))
         IN  IF count = 0
             THEN <<text, 0>>
             ELSE <<ReSubn(text, pattern, replacement, TRUE, TRUE)[1], count>>
    ELSE <<StrReplace(text, pattern, replacement), StrCount(text, pattern)>>

\* a pattern that does not compile replaces nothing
perform_replacement_no_fallback(text, pattern, replacement, use_regex, case_sensitive) ==
    IF use_regex
    THEN IF ReError(pattern)
         THEN <<text, 0>>
         ELSE ReSubn(text, pattern, replacement, FALSE, ~case_sensitive)
    ELSE simple_replacement(text, pattern, replacement, case_sensitive)

perform_replacement(text, pattern, replacement, use_regex, case_sensitive) ==
    IF use_regex
    THEN IF ReError(pattern)
         THEN simple_replacement(text, pattern, replacement, case_sensitive)
         ELSE ReSubn(text, pattern, replacement, FALSE, ~case_sensitive)
    ELSE simple_replacement(text, pattern, replacement, case_sensitive)

(***************************************************************************)
(* FileReplaceService: one file.  The operators return what the method     *)
(* returns or raises and the file system it leaves.                        *)
(***************************************************************************)
\* a file in which nothing was replaced is reported as a failure
replace_in_file_zero_fails(files, file_path, op) ==
    IF file_path \notin DOMAIN files
    THEN [raised |-> TRUE, msg |-> "FileAccessError", count |-> 0, files |-> files]
    ELSE LET r == perform_replacement(files[file_path], op.search_pattern,
                                      op.replace_text, op.use_regex, op.case_sensitive)
         IN  [raised |-> r[2] = 0, msg |-> IF r[2] = 0 THEN "NothingReplaced" ELSE None,
              count |-> r[2],
              files |-> IF r[2] > 0 THEN [files EXCEPT ![file_path] = r[1]] ELSE files]

\* _replace_in_file: read, substitute, write when something was replaced
replace_in_file(files, file_path, op) ==
    IF file_path \notin DOMAIN files
    THEN [raised |-> TRUE, msg |-> "FileAccessError", count |-> 0, files |-> files]
    ELSE LET r == perform_replacement(files[file_path], op.search_pattern,
                                      op.replace_text, op.use_regex, op.case_sensitive)
         IN  [raised |-> FALSE, msg |-> None, count |-> r[2],
              files |-> IF r[2] > 0 THEN [files EXCEPT ![file_path] = r[1]] ELSE files]

\* no loop: the backup goes to original_backup_path whether it exists or not
FreeBackupPath_first(files, original_backup_path, backup_path, counter) ==
    original_backup_path

\* the while loop of _create_backup: the first free name among
\* original_backup_path, original_backup_path + ".1", + ".2", ...
RECURSIVE FreeBackupPath(_, _, _, _)
FreeBackupPath(files, original_backup_path, backup_path, counter) ==
    IF backup_path \in DOMAIN files
    THEN FreeBackupPath(files, original_backup_path,
                        WithSuffix(original_backup_path,
                                   PathSuffix(original_backup_path) \o <<".">> \o IntStr(counter)),
                        counter + 1)
    ELSE backup_path

\* _create_backup: shutil.copy2 of the file as it is now
create_backup(files, file_path, backup_suffix) ==
    IF WithSuffixRaises(file_path, PathSuffix(file_path) \o backup_suffix)
    THEN [raised |-> TRUE, msg |-> "InvalidSuffix", path |-> None, files |-> files]
    ELSE LET first == WithSuffix(file_path, PathSuffix(file_path) \o backup_suffix)
             backup_path == FreeBackupPath(files, first, first, 1)
         IN  IF file_path \notin DOMAIN files
             THEN [raised |-> TRUE, msg |-> "FileNotFound", path |-> None, files |-> files]
             ELSE [raised |-> FALSE, msg |-> None, path |-> backup_path,
                   files |-> (backup_path :> files[file_path]) @@ files]

\* a loop body that makes the backup whatever the replacement count is
replace_one_always_backs_up(res, files, file_path, op) ==
    LET r1 == replace_in_file(files, file_path, op)
    IN  IF r1.raised
        THEN [result |-> add_error(res, file_path, r1.msg), files |-> r1.files, backup |-> None]
        ELSE IF op.create_backup
             THEN LET r2 == create_backup(r1.files, file_path, op.backup_suffix)
                  IN  IF r2.raised
                      THEN [result |-> add_error(res, file_path, r2.msg),
                            files |-> r2.files, backup |-> None]
                      ELSE [result |-> add_success(res, file_path, r1.count, r2.path),
                            files |-> r2.files, backup |-> r2.path]
             ELSE [result |-> add_success(res, file_path, r1.count, None),
                   files |-> r1.files, backup |-> None]

\* the body of replace's for loop for one target: <<result, files, source of the backup>>
replace_one(res, files, file_path, op) ==
    LET r1 == replace_in_file(files, file_path, op)
    IN  IF r1.raised
        THEN [result |-> add_error(res, file_path, r1.msg), files |-> r1.files, backup |-> None]
        ELSE IF op.create_backup /\ r1.count > 0
             THEN LET r2 == create_backup(r1.files, file_path, op.backup_suffix)
                  IN  IF r2.raised
                      THEN [result |-> add_error(res, file_path, r2.msg),
                            files |-> r2.files, backup |-> None]
                      ELSE [result |-> add_success(res, file_path, r1.count, r2.path),
                            files |-> r2.files, backup |-> r2.path]
             ELSE [result |-> add_success(res, file_path, r1.count, None),
                   files |-> r1.files, backup |-> None]

\* a loop that never looks at the flag
replace_break_ignored(cancelled) == FALSE

\* replace, lines 26-27: if self.is_cancelled: break
replace_break(cancelled) == cancelled

\* _get_original_path_from_backup
get_original_path_from_backup(backup_path) ==
    IF EndsWith(backup_path, <<".", "b", "a", "k">>)
    THEN SubSeq(backup_path, 1, Len(backup_path) - 4)
    ELSE LET pos == StrFind(backup_path, <<".", "b", "a", "k", ".">>, 1)
         IN  IF pos # 0 THEN SubSeq(backup_path, 1, pos - 1) ELSE None

(***************************************************************************)
(* Inputs of the replace model.                                            *)
(***************************************************************************)
FileF == <<"f", ".", "t">>
FileG == <<"g">>
FileM == <<"m", ".", "t">>          \* never exists
OldBackupF == <<"f", ".", "t", ".", "b", "a", "k">>
OldBackupM == <<"m", ".", "t", ".", "b", "a", "k">>   \* a backup whose original is gone

FileTexts == {<<"a", "b">>, <<"a", "A", "a">>}

TargetLists == {<<FileF>>, <<FileF, FileG>>, <<FileM, FileF>>, <<FileG, FileG>>, <<>>}

SearchPatterns == {<<"a">>, <<"a", "[">>}

ReplaceTexts == {<<"b">>, <<"a", "a">>}

DefaultBackupSuffix == <<".", "b", "a", "k">>

BackupSuffixes == {DefaultBackupSuffix, <<".", "o">>, <<"_", "b">>}

\* the backup suffix is varied only where a backup is asked for
Operations ==
    {op \in [search_pattern : SearchPatterns, replace_text : ReplaceTexts,
             target_files : TargetLists, use_regex : BOOLEAN, case_sensitive : BOOLEAN,
             create_backup : BOOLEAN, backup_suffix : BackupSuffixes] :
        op.create_backup \/ op.backup_suffix = DefaultBackupSuffix}

InitialFiles ==
    {(FileF :> tf) @@ (FileG :> tg) : tf \in FileTexts, tg \in {<<"b">>, <<"A">>}}
    \cup {(FileF :> tf) @@ (FileG :> <<"A">>) @@ (OldBackupF :> <<"b">>)
              @@ (OldBackupM :> <<"b">>) : tf \in FileTexts}

(***************************************************************************)
(* FileReplaceService: actions.                                            *)
(***************************************************************************)
ReplaceInit ==
    /\ fs \in InitialFiles
    /\ operation \in Operations
    /\ r_pc = "idle"
    /\ r_idx = 1
    /\ r_cancelled = FALSE
    /\ result = EmptyReplaceResult
    /\ r_calls = 0
    /\ restore_ret = None
    /\ restore_arg = None
    /\ pre_fs = fs
    /\ bk_src = <<>>
    /\ last_call = "none"
    /\ prev_run = [after_replace |-> FALSE, result |-> EmptyReplaceResult]
    /\ preview_results = <<>>

\* replace, lines 18-23: a fresh result, the cancel flag cleared
ReplaceBegin ==
    /\ r_pc = "idle"
    /\ r_calls < MaxReplaceCalls
    /\ r_pc' = "loop"
    /\ r_idx' = 1
    /\ r_cancelled' = FALSE
    /\ result' = EmptyReplaceResult
    /\ r_calls' = r_calls + 1
    /\ pre_fs' = fs
    /\ bk_src' = <<>>
    /\ prev_run' = [after_replace |-> last_call = "replace", result |-> result]
    /\ UNCHANGED <<fs, operation, restore_ret, restore_arg, last_call>>
    /\ UNCHANGED NotReplace

\* replace, lines 25-42: one iteration of the loop
ReplaceFile ==
    /\ r_pc = "loop"
    /\ r_idx <= Len(operation.target_files)
    /\ ~replace_break(r_cancelled)
    /\ LET r == replace_one(result, fs, operation.target_files[r_idx], operation)
       IN  /\ result' = r.result
           /\ fs' = r.files
           /\ bk_src' = IF r.backup # None
                        THEN Append(bk_src, operation.target_files[r_idx])
                        ELSE bk_src
    /\ r_idx' = r_idx + 1
    /\ UNCHANGED <<operation, r_pc, r_cancelled, r_calls, restore_ret, restore_arg,
                   pre_fs, last_call, prev_run>>
    /\ UNCHANGED NotReplace

\* replace, lines 26-27 and 50: the loop ends or breaks, result is returned
ReplaceReturn ==
    /\ r_pc = "loop"
    /\ (replace_break(r_cancelled) \/ r_idx > Len(operation.target_files))
    /\ r_pc' = "idle"
    /\ last_call' = "replace"
    /\ UNCHANGED <<fs, operation, r_idx, r_cancelled, result, r_calls, restore_ret,
                   restore_arg, pre_fs, bk_src, prev_run>>
    /\ UNCHANGED NotReplace

\* cancel, from any thread at any time
ReplaceCancel ==
    /\ r_cancelled' = TRUE
    /\ UNCHANGED <<fs, operation, r_pc, r_idx, result, r_calls, restore_ret,
                   restore_arg, pre_fs, bk_src, last_call, prev_run>>
    /\ UNCHANGED NotReplace

(***************************************************************************)
(* FileReplaceService.preview_replace.                                     *)
(***************************************************************************)
NL == "\n"

\* f.readlines() with each line's terminator stripped (line 116)
RECURSIVE ReadLines(_)
ReadLines(text) ==
    IF text = <<>>
    THEN <<>>
    ELSE LET ends == {i \in 1..Len(text) : text[i] = NL}
         IN  IF ends = {}
             THEN <<text>>
             ELSE LET pos == CHOOSE i \in ends : \A j \in ends : i <= j
                  IN  <<SubSeq(text, 1, pos - 1)>>
                          \o ReadLines(SubSeq(text, pos + 1, Len(text)))

\* the changes of the lines from line_num on, lines 114-129
RECURSIVE PreviewChangesFrom(_, _, _)
PreviewChangesFrom(lines, line_num, op) ==
    IF line_num > Len(lines)
    THEN <<>>
    ELSE LET r == perform_replacement(lines[line_num], op.search_pattern, op.replace_text,
                                      op.use_regex, op.case_sensitive)
             rest == PreviewChangesFrom(lines, line_num + 1, op)
         IN  IF r[2] > 0
             THEN <<[line_number |-> line_num, original |-> lines[line_num],
                     replaced |-> r[1], replacement_count |-> r[2]]>> \o rest
             ELSE rest

RECURSIVE SumCounts(_)
SumCounts(changes) ==
    IF changes = <<>> THEN 0 ELSE Head(changes).replacement_count + SumCounts(Tail(changes))

\* _preview_file_replace: the dict of one file; a file that cannot be read
\* gives an error entry without changes
preview_file_replace(files, file_path, op) ==
    IF file_path \notin DOMAIN files
    THEN [file_path |-> file_path, error |-> TRUE, changes |-> <<>>, total_replacements |-> 0]
    ELSE LET changes == PreviewChangesFrom(ReadLines(files[file_path]), 1, op)
         IN  [file_path |-> file_path, error |-> FALSE, changes |-> changes,
              total_replacements |-> SumCounts(changes)]

\* a preview loop that never looks at the flag
preview_break_ignored(cancelled) == FALSE

\* preview_replace, lines 61-62: if self.is_cancelled: break
preview_break(cancelled) == cancelled

\* preview_replace, line 58; is_cancelled is left as it is
PreviewBegin ==
    /\ r_pc = "idle"
    /\ r_pc' = "preview"
    /\ r_idx' = 1
    /\ preview_results' = <<>>
    /\ UNCHANGED <<fs, operation, r_cancelled, result, r_calls, restore_ret, restore_arg,
                   pre_fs, bk_src, last_call, prev_run>>
    /\ UNCHANGED NotPreview

\* preview_replace, lines 60-73: one iteration of the loop
PreviewFile ==
    /\ r_pc = "preview"
    /\ r_idx <= Len(operation.target_files)
    /\ ~preview_break(r_cancelled)
    /\ LET file_preview == preview_file_replace(fs, operation.target_files[r_idx], operation)
       IN  preview_results' = IF file_preview.changes # <<>>
                              THEN Append(preview_results, file_preview)
                              ELSE preview_results
    /\ r_idx' = r_idx + 1
    /\ UNCHANGED <<fs, operation, r_pc, r_cancelled, result, r_calls, restore_ret,
                   restore_arg, pre_fs, bk_src, last_call, prev_run>>
    /\ UNCHANGED NotPreview

\* preview_replace, lines 61-62 and 75: the loop ends or breaks
PreviewReturn ==
    /\ r_pc = "preview"
    /\ (preview_break(r_cancelled) \/ r_idx > Len(operation.target_files))
    /\ r_pc' = "idle"
    /\ last_call' = "preview"
    /\ UNCHANGED <<fs, operation, r_idx, r_cancelled, result, r_calls, restore_ret,
                   restore_arg, pre_fs, bk_src, prev_run, preview_results>>
    /\ UNCHANGED NotPreview

\* the operations previewed: those of replace, and those with a pattern that
\* spans two lines
PreviewOperations ==
    Operations
    \cup {[op EXCEPT !.search_pattern = <<"a", NL, "b">>] :
              op \in {o \in Operations : o.search_pattern = <<"a">>}}

\* the operations of a service whose replace, preview_replace and cancel are
\* all called: no backups
FlagOperations ==
    {op \in Operations : ~op.create_backup /\ op.replace_text = <<"b">>}

\* the files previewed: several lines each
PreviewFiles ==
    {(FileF :> tf) @@ (FileG :> tg) :
        tf \in {<<"a", NL, "b", NL, "A">>, <<"b">>},
        tg \in {<<"A", NL>>, <<"b", NL, "a", "a">>}}

\* a restore that does not ask whether the original exists
RestoreFromBackup_creates_original(backup_path) ==
    /\ r_pc = "idle"
    /\ last_call = "replace"
    /\ LET original_path == get_original_path_from_backup(backup_path)
       IN  IF original_path # None /\ backup_path \in DOMAIN fs
           THEN /\ fs' = (original_path :> fs[backup_path]) @@ fs
                /\ restore_ret' = TRUE
           ELSE /\ fs' = fs
                /\ restore_ret' = FALSE
    /\ restore_arg' = backup_path
    /\ last_call' = "restore"
    /\ UNCHANGED <<operation, r_pc, r_idx, r_cancelled, result, r_calls, pre_fs, bk_src,
                   prev_run>>
    /\ UNCHANGED NotReplace

\* restore_from_backup, lines 195-204
RestoreFromBackup(backup_path) ==
    /\ r_pc = "idle"
    /\ last_call = "replace"
    /\ LET original_path == get_original_path_from_backup(backup_path)
       IN  IF original_path # None /\ original_path \in DOMAIN fs
           THEN IF backup_path \in DOMAIN fs
                THEN /\ fs' = [fs EXCEPT ![original_path] = fs[backup_path]]
                     /\ restore_ret' = TRUE
                ELSE /\ fs' = fs
                     /\ restore_ret' = FALSE
           ELSE /\ fs' = fs
                /\ restore_ret' = FALSE
    /\ restore_arg' = backup_path
    /\ last_call' = "restore"
    /\ UNCHANGED <<operation, r_pc, r_idx, r_cancelled, result, r_calls, pre_fs, bk_src,
                   prev_run>>
    /\ UNCHANGED NotReplace

\* restore_from_backup is called on a backup of the last result, on a file
\* that is no backup, or on a backup whose original does not exist
RestoreAny ==
    \E backup_path \in {result.backup_files[i] : i \in 1..Len(result.backup_files)}
                        \cup {FileG, OldBackupM} :
        RestoreFromBackup(backup_path)



(***************************************************************************)
(* FileSearchService: matching (file_search_service.py).                   *)
(***************************************************************************)
ContextLen == 20

EmptySearchResult == [matches |-> <<>>, total_files_scanned |-> 0]

\* s[-n:]
LastN(s, n) == IF Len(s) <= n THEN s ELSE SubSeq(s, Len(s) - n + 1, Len(s))

\* s[:n]
FirstN(s, n) == IF Len(s) <= n THEN s ELSE SubSeq(s, 1, n)

\* the dict _find_line_matches builds for an occurrence at pos (1-based) of
\* length n; start and end are Python's 0-based offsets
LineMatch(line, pos, n) ==
    [text |-> SubSeq(line, pos, pos + n - 1),
     start |-> pos - 1,
     end |-> pos - 1 + n,
     before |-> LastN(SubSeq(line, 1, pos - 1), ContextLen),
     after |-> FirstN(SubSeq(line, pos + n, Len(line)), ContextLen)]

\* _simple_line_search: the next search starts one character after the hit
RECURSIVE SimpleLineSearchFrom(_, _, _, _, _)
SimpleLineSearchFrom(line, search_line, search_pattern, n, start) ==
    LET pos == StrFind(search_line, search_pattern, start)
    IN  IF pos = 0
        THEN <<>>
        ELSE <<LineMatch(line, pos, n)>>
                 \o SimpleLineSearchFrom(line, search_line, search_pattern, n, pos + 1)

simple_line_search(line, pattern, case_sensitive) ==
    SimpleLineSearchFrom(line,
                         IF case_sensitive THEN line ELSE LowerStr(line),
                         IF case_sensitive THEN pattern ELSE LowerStr(pattern),
                         Len(pattern), 1)

\* re.finditer: non-overlapping matches, left to right
RECURSIVE ReFindIterFrom(_, _, _, _)
ReFindIterFrom(line, pattern, start, ignorecase) ==
    LET pos == ReFind(line, pattern, start, FALSE, ignorecase)
    IN  IF pos = 0
        THEN <<>>
        ELSE <<LineMatch(line, pos, Len(pattern))>>
                 \o ReFindIterFrom(line, pattern, pos + Len(pattern), ignorecase)

find_line_matches(line, pattern, use_regex, case_sensitive) ==
    IF use_regex /\ ~ReError(pattern)
    THEN ReFindIterFrom(line, pattern, 1, ~case_sensitive)
    ELSE simple_line_search(line, pattern, case_sensitive)

\* pattern in text
simple_match(text, pattern, case_sensitive) ==
    IF case_sensitive
    THEN StrFind(text, pattern, 1) # 0
    ELSE StrFind(LowerStr(text), LowerStr(pattern), 1) # 0

matches_filename(filename, pattern, use_regex, case_sensitive) ==
    IF use_regex /\ ~ReError(pattern)
    THEN ReFind(filename, pattern, 1, FALSE, ~case_sensitive) # 0
    ELSE simple_match(filename, pattern, case_sensitive)

\* _get_file_info: NoInfo (None) for what is no regular file or cannot be stat'ed
NoInfo == [modified_date |-> NoDate, file_size |-> 0]

get_file_info(entry) ==
    IF ~entry.is_file \/ ~entry.stat_ok
    THEN NoInfo
    ELSE [modified_date |-> entry.mtime, file_size |-> entry.size]

\* a str or list field that is None or empty is falsy
Truthy(x) == x # None /\ x # <<>>

matches_criteria(entry, file_info, crit) ==
    /\ Truthy(crit.filename_pattern) =>
           matches_filename(entry.name, crit.filename_pattern, crit.use_regex,
                            crit.case_sensitive)
    /\ crit.file_extensions # <<>> =>
           \E i \in 1..Len(crit.file_extensions) :
               LowerStr(PathSuffix(entry.name)) = LowerStr(crit.file_extensions[i])
    /\ crit.date_from # NoDate => ~(file_info.modified_date < crit.date_from)
    /\ crit.date_to # NoDate => ~(file_info.modified_date > crit.date_to)

\* the ContentMatches of one line
line_content_matches(line, line_num, crit) ==
    LET ms == find_line_matches(line, crit.content_pattern, crit.use_regex,
                                crit.case_sensitive)
    IN  [i \in 1..Len(ms) |->
            [line_number |-> line_num, matched_text |-> ms[i].text,
             context_before |-> ms[i].before, context_after |-> ms[i].after,
             start_position |-> ms[i].start, end_position |-> ms[i].end]]

\* the FileMatch _create_file_match returns, given the content matches
FileMatch(entry, file_info, content_matches) ==
    [file_path |-> entry.name, modified_date |-> file_info.modified_date,
     file_size |-> file_info.file_size, matches |-> content_matches]


\* a loop that does not count the entry
count_skipped(res) == res

\* search, line 34, _search_with_progress, line 83: total_files_scanned += 1
count_scanned(res) == [res EXCEPT !.total_files_scanned = @ + 1]

\* a search that never looks at the flag
search_break_ignored(cancelled) == FALSE

\* the flag the loops of search and _search_file_content read
search_break(cancelled) == cancelled

(***************************************************************************)
(* Inputs of the search models: the entries of the folder, each with what  *)
(* is_file() and stat() say of it and, for a file, its lines.              *)
(***************************************************************************)
Entry(name, is_file, stat_ok, lines) ==
    [name |-> name, is_file |-> is_file, stat_ok |-> stat_ok, mtime |-> 1,
     size |-> 1, lines |-> lines]

EntryUniverse ==
    { Entry(<<"a", ".", "t">>, TRUE, TRUE, << <<"a", "b", "a">>, <<"b", "a">> >>),
      Entry(<<"b", ".", "t">>, TRUE, TRUE, << <<"b">> >>),
      Entry(<<"d">>, FALSE, TRUE, <<>>),
      Entry(<<"a", ".", "u">>, TRUE, FALSE, <<>>) }

Folders ==
    {es \in UNION {[1..n -> EntryUniverse] : n \in 0..MaxEntries} :
        \A i, j \in DOMAIN es : i # j => es[i] # es[j]}

Criterias ==
    [filename_pattern : {None, <<"a">>}, file_extensions : {<<>>},
     date_from : {NoDate}, date_to : {NoDate}, content_pattern : {None, <<"a">>},
     use_regex : {FALSE}, case_sensitive : {FALSE}, include_subdirectories : {TRUE}]

\* the extensions are kept as they were given
normalize_extensions_skipped(file_extensions) == file_extensions

\* SearchCriteria.__post_init__, lines 32-35: a leading dot is added where
\* there is none
normalize_extensions(file_extensions) ==
    [i \in 1..Len(file_extensions) |->
        IF file_extensions[i] # <<>> /\ file_extensions[i][1] = "."
        THEN file_extensions[i]
        ELSE <<".">> \o file_extensions[i]]

\* SearchCriteria(target_folder, file_extensions = ...)
SearchCriteria(file_extensions) ==
    [filename_pattern |-> None, file_extensions |-> normalize_extensions(file_extensions),
     date_from |-> NoDate, date_to |-> NoDate, content_pattern |-> None,
     use_regex |-> FALSE, case_sensitive |-> FALSE, include_subdirectories |-> TRUE]

DirInit ==
    /\ entries \in Folders
    /\ listing_raises \in BOOLEAN
    /\ criteria \in Criterias

(***************************************************************************)
(* FileSearchService.search and cancel: actions.                           *)
(***************************************************************************)
SearchInit ==
    /\ s_pc = "idle"
    /\ s_idx = 1
    /\ s_line = 1
    /\ s_found = <<>>
    /\ s_cancelled = FALSE
    /\ s_result = EmptySearchResult
    /\ s_cancel_before = FALSE
    /\ s_cancel_at = -1

\* search, lines 21-28
SearchBegin ==
    /\ s_pc = "idle"
    /\ s_pc' = "loop"
    /\ s_idx' = 1
    /\ s_cancelled' = FALSE
    /\ s_result' = EmptySearchResult
    /\ UNCHANGED <<s_line, s_found, s_cancel_before, s_cancel_at>>
    /\ UNCHANGED NotSearch

\* search, lines 30-49: fetch the next entry and run the loop body up to the
\* content scan; the loop ends when the entries are exhausted or the flag is set
SearchLoop ==
    /\ s_pc = "loop"
    /\ IF listing_raises
       THEN /\ s_pc' = "raised"
            /\ UNCHANGED <<s_idx, s_line, s_found, s_result>>
       ELSE IF s_idx > Len(entries) \/ search_break(s_cancelled)
       THEN /\ s_pc' = "done"
            /\ UNCHANGED <<s_idx, s_line, s_found, s_result>>
       ELSE LET entry == entries[s_idx]
                file_info == get_file_info(entry)
                counted == count_scanned(s_result)
            IN  IF file_info = NoInfo \/ ~matches_criteria(entry, file_info, criteria)
                THEN /\ s_result' = counted
                     /\ s_idx' = s_idx + 1
                     /\ UNCHANGED <<s_pc, s_line, s_found>>
                ELSE IF Truthy(criteria.content_pattern)
                THEN /\ s_result' = counted
                     /\ s_pc' = "scan"
                     /\ s_line' = 1
                     /\ s_found' = <<>>
                     /\ UNCHANGED s_idx
                ELSE /\ s_result' = [counted EXCEPT !.matches =
                                        Append(@, FileMatch(entry, file_info, <<>>))]
                     /\ s_idx' = s_idx + 1
                     /\ UNCHANGED <<s_pc, s_line, s_found>>
    /\ UNCHANGED <<s_cancelled, s_cancel_before, s_cancel_at>>
    /\ UNCHANGED NotSearch

\* _search_file_content, lines 141-155: one line; at the end of the file or
\* when the flag is set, _create_file_match returns and search adds the match
SearchScanLine ==
    /\ s_pc = "scan"
    /\ LET entry == entries[s_idx]
       IN  IF s_line > Len(entry.lines) \/ search_break(s_cancelled)
           THEN /\ s_result' = [s_result EXCEPT !.matches =
                                   Append(@, FileMatch(entry, get_file_info(entry), s_found))]
                /\ s_idx' = s_idx + 1
                /\ s_pc' = "loop"
                /\ UNCHANGED <<s_line, s_found>>
           ELSE /\ s_found' = s_found \o line_content_matches(entry.lines[s_line], s_line, criteria)
                /\ s_line' = s_line + 1
                /\ UNCHANGED <<s_pc, s_idx, s_result>>
    /\ UNCHANGED <<s_cancelled, s_cancel_before, s_cancel_at>>
    /\ UNCHANGED NotSearch

\* cancel, from any thread at any time
SearchCancel ==
    /\ s_pc \in {"idle", "loop", "scan"}
    /\ s_cancelled' = TRUE
    /\ s_cancel_before' = (s_cancel_before \/ s_pc = "idle")
    /\ s_cancel_at' = IF s_pc \in {"loop", "scan"} /\ s_cancel_at = -1
                      THEN s_result.total_files_scanned
                      ELSE s_cancel_at
    /\ UNCHANGED <<s_pc, s_idx, s_line, s_found, s_result>>
    /\ UNCHANGED NotSearch

(***************************************************************************)
(* SearchWorker (async_search_service.py).  A step of the thread runs from *)
(* one read of a cancel flag to the next, so that cancel() can fall        *)
(* between any two reads.                                                  *)
(***************************************************************************)
Workers == 1..MaxWorkers

\* QThread.isRunning(): from start() until run() has returned
isRunning(w) == w_pc[w] \notin {"none", "new", "done", "terminated"}

Emit(w, sig) == Append(w_signals[w], sig)

\* a progress that counts the entries still to do
LoopProgress_remaining(processed_count, total_files) ==
    10 + ((total_files - processed_count) * 80) \div total_files

\* progress of the loop, line 101
LoopProgress(processed_count, total_files) == 10 + (processed_count * 80) \div total_files

\* the first progress is emitted ahead of search_started
StartSignals_progress_first(signals) ==
    Append(Append(signals, <<"progress_updated", 0>>), <<"search_started">>)

\* run, line 32, then _search_with_progress, line 64
StartSignals(signals) ==
    Append(Append(signals, <<"search_started">>), <<"progress_updated", 0>>)

\* a loop that never looks at the flag
worker_break_ignored(cancelled) == FALSE

\* line 80: if self.is_cancelled(): break
worker_break(cancelled) == cancelled

\* finished is never emitted
finished_never(cancelled) == FALSE

\* line 37: if not self._is_cancelled
finished_allowed(cancelled) == ~cancelled

\* the handler emits whatever the flag says
error_always(cancelled) == TRUE

\* line 41: if not self._is_cancelled
error_allowed(cancelled) == ~cancelled

WorkerInit ==
    /\ w_idx = [w \in Workers |-> 1]
    /\ w_line = [w \in Workers |-> 1]
    /\ w_found = [w \in Workers |-> <<>>]
    /\ w_processed = [w \in Workers |-> 0]
    /\ w_result = [w \in Workers |-> EmptySearchResult]
    /\ w_cancelled = [w \in Workers |-> FALSE]
    /\ w_svc_cancelled = [w \in Workers |-> FALSE]
    /\ w_signals = [w \in Workers |-> <<>>]
    /\ w_term_req = [w \in Workers |-> FALSE]
    /\ w_cancel_pc = [w \in Workers |-> ""]
    /\ w_cancel_at = [w \in Workers |-> -1]

\* QThread.start() by the thread that holds the worker
WStart(w) ==
    /\ w_pc[w] = "new"
    /\ a_pc = "idle"
    /\ w_pc' = [w_pc EXCEPT ![w] = "begin"]
    /\ UNCHANGED <<w_idx, w_line, w_found, w_processed, w_result, w_cancelled,
                   w_svc_cancelled, w_signals, w_term_req, w_cancel_pc, w_cancel_at>>
    /\ UNCHANGED <<avars, NotWorker>>

\* what cancel() does to the worker it is called on, lines 44-48
cancel(w) ==
    /\ w_cancelled' = [w_cancelled EXCEPT ![w] = TRUE]
    /\ w_svc_cancelled' = [w_svc_cancelled EXCEPT ![w] = TRUE]
    /\ w_cancel_pc' = IF w_cancel_pc[w] = ""
                      THEN [w_cancel_pc EXCEPT ![w] = w_pc[w]] ELSE w_cancel_pc
    /\ w_cancel_at' = IF w_cancel_pc[w] = ""
                      THEN [w_cancel_at EXCEPT ![w] = w_result[w].total_files_scanned]
                      ELSE w_cancel_at

\* SearchWorker.cancel() called directly, from any thread
WCancel(w) ==
    /\ w_pc[w] \notin {"none", "terminated"}
    /\ cancel(w)
    /\ UNCHANGED <<w_pc, w_idx, w_line, w_found, w_processed, w_result, w_signals,
                   w_term_req>>
    /\ UNCHANGED <<avars, NotWorker>>

\* run, line 32, and _search_with_progress, lines 60-77
WBegin(w) ==
    /\ w_pc[w] = "begin"
    /\ LET s0 == StartSignals(w_signals[w])
       IN  IF listing_raises
           THEN /\ w_pc' = [w_pc EXCEPT ![w] = "exc_check"]
                /\ w_signals' = [w_signals EXCEPT ![w] = s0]
           ELSE IF Len(entries) = 0
           THEN /\ w_pc' = [w_pc EXCEPT ![w] = "fin_check"]
                /\ w_signals' = [w_signals EXCEPT ![w] = Append(s0, <<"progress_updated", 100>>)]
           ELSE /\ w_pc' = [w_pc EXCEPT ![w] = "loop"]
                /\ w_signals' = [w_signals EXCEPT ![w] = Append(s0, <<"progress_updated", 10>>)]
    /\ w_idx' = [w_idx EXCEPT ![w] = 1]
    /\ w_processed' = [w_processed EXCEPT ![w] = 0]
    /\ w_result' = [w_result EXCEPT ![w] = EmptySearchResult]
    /\ UNCHANGED <<w_line, w_found, w_cancelled, w_svc_cancelled, w_term_req,
                   w_cancel_pc, w_cancel_at>>
    /\ UNCHANGED <<avars, NotWorker>>

\* the end of the loop body, lines 93-103, for a file that matched (match is
\* its FileMatch) or did not (match is NoMatch)
NoMatch == [file_path |-> <<>>, modified_date |-> NoDate, file_size |-> 0, matches |-> <<>>]

\* a loop body that counts the file and reports it but does not add its match
EndOfBody_drops_match(w, counted, match) ==
    LET n == w_processed[w] + 1
        sigs == IF match # NoMatch
                THEN Emit(w, <<"file_processed", match.file_path>>)
                ELSE w_signals[w]
    IN  /\ w_result' = [w_result EXCEPT ![w] = counted]
        /\ w_processed' = [w_processed EXCEPT ![w] = n]
        /\ w_signals' = [w_signals EXCEPT ![w] =
                            Append(sigs, <<"progress_updated", LoopProgress(n, Len(entries))>>)]
        /\ w_idx' = [w_idx EXCEPT ![w] = w_idx[w] + 1]

EndOfBody(w, counted, match) ==
    LET n == w_processed[w] + 1
        sigs == IF match # NoMatch
                THEN Emit(w, <<"file_processed", match.file_path>>)
                ELSE w_signals[w]
    IN  /\ w_result' = [w_result EXCEPT ![w] =
                           IF match # NoMatch
                           THEN [counted EXCEPT !.matches = Append(@, match)]
                           ELSE counted]
        /\ w_processed' = [w_processed EXCEPT ![w] = n]
        /\ w_signals' = [w_signals EXCEPT ![w] =
                            Append(sigs, <<"progress_updated", LoopProgress(n, Len(entries))>>)]
        /\ w_idx' = [w_idx EXCEPT ![w] = w_idx[w] + 1]

\* _search_with_progress, lines 79-103: the next entry, up to the content scan
WLoop(w) ==
    /\ w_pc[w] = "loop"
    /\ IF w_idx[w] > Len(entries) \/ worker_break(w_cancelled[w])
       THEN /\ w_pc' = [w_pc EXCEPT ![w] = "post_loop"]
            /\ UNCHANGED <<w_idx, w_line, w_found, w_processed, w_result, w_signals>>
       ELSE LET entry == entries[w_idx[w]]
                file_info == get_file_info(entry)
                counted == count_scanned(w_result[w])
            IN  IF file_info = NoInfo
                THEN /\ w_result' = [w_result EXCEPT ![w] = counted]
                     /\ w_idx' = [w_idx EXCEPT ![w] = @ + 1]
                     /\ UNCHANGED <<w_pc, w_line, w_found, w_processed, w_signals>>
                ELSE IF ~matches_criteria(entry, file_info, criteria)
                THEN /\ EndOfBody(w, counted, NoMatch)
                     /\ UNCHANGED <<w_pc, w_line, w_found>>
                ELSE IF Truthy(criteria.content_pattern)
                THEN /\ w_result' = [w_result EXCEPT ![w] = counted]
                     /\ w_pc' = [w_pc EXCEPT ![w] = "scan"]
                     /\ w_line' = [w_line EXCEPT ![w] = 1]
                     /\ w_found' = [w_found EXCEPT ![w] = <<>>]
                     /\ UNCHANGED <<w_idx, w_processed, w_signals>>
                ELSE /\ EndOfBody(w, counted, FileMatch(entry, file_info, <<>>))
                     /\ UNCHANGED <<w_pc, w_line, w_found>>
    /\ UNCHANGED <<w_cancelled, w_svc_cancelled, w_term_req, w_cancel_pc, w_cancel_at>>
    /\ UNCHANGED <<avars, NotWorker>>

\* _search_file_content called from line 92: one line, or the end of the scan
\* and of the loop body
WScanLine(w) ==
    /\ w_pc[w] = "scan"
    /\ LET entry == entries[w_idx[w]]
       IN  IF w_line[w] > Len(entry.lines) \/ search_break(w_svc_cancelled[w])
           THEN /\ EndOfBody(w, w_result[w], FileMatch(entry, get_file_info(entry), w_found[w]))
                /\ w_pc' = [w_pc EXCEPT ![w] = "loop"]
                /\ UNCHANGED <<w_line, w_found>>
           ELSE /\ w_found' = [w_found EXCEPT ![w] =
                                  @ \o line_content_matches(entry.lines[w_line[w]],
                                                            w_line[w], criteria)]
                /\ w_line' = [w_line EXCEPT ![w] = @ + 1]
                /\ UNCHANGED <<w_pc, w_idx, w_processed, w_result, w_signals>>
    /\ UNCHANGED <<w_cancelled, w_svc_cancelled, w_term_req, w_cancel_pc, w_cancel_at>>
    /\ UNCHANGED <<avars, NotWorker>>

\* _search_with_progress, lines 109-115
WPostLoop(w) ==
    /\ w_pc[w] = "post_loop"
    /\ w_pc' = [w_pc EXCEPT ![w] = "fin_check"]
    /\ w_signals' = [w_signals EXCEPT ![w] =
                        IF ~w_cancelled[w] THEN Append(@, <<"progress_updated", 100>>) ELSE @]
    /\ UNCHANGED <<w_idx, w_line, w_found, w_processed, w_result, w_cancelled,
                   w_svc_cancelled, w_term_req, w_cancel_pc, w_cancel_at>>
    /\ UNCHANGED <<avars, NotWorker>>

\* run, line 37
WFinCheck(w) ==
    /\ w_pc[w] = "fin_check"
    /\ w_pc' = [w_pc EXCEPT ![w] =
                   IF finished_allowed(w_cancelled[w]) THEN "emit_finished" ELSE "done"]
    /\ UNCHANGED <<w_idx, w_line, w_found, w_processed, w_result, w_cancelled,
                   w_svc_cancelled, w_signals, w_term_req, w_cancel_pc, w_cancel_at>>
    /\ UNCHANGED <<avars, NotWorker>>

\* finished is emitted and the handler of run runs as well
WEmitFinished_and_handler(w) ==
    /\ w_pc[w] = "emit_finished"
    /\ w_pc' = [w_pc EXCEPT ![w] = "exc_check"]
    /\ w_signals' = [w_signals EXCEPT ![w] = Append(@, <<"search_finished", w_result[w]>>)]
    /\ UNCHANGED <<w_idx, w_line, w_found, w_processed, w_result, w_cancelled,
                   w_svc_cancelled, w_term_req, w_cancel_pc, w_cancel_at>>
    /\ UNCHANGED <<avars, NotWorker>>

\* run, line 38; run returns
WEmitFinished(w) ==
    /\ w_pc[w] = "emit_finished"
    /\ w_pc' = [w_pc EXCEPT ![w] = "done"]
    /\ w_signals' = [w_signals EXCEPT ![w] = Append(@, <<"search_finished", w_result[w]>>)]
    /\ UNCHANGED <<w_idx, w_line, w_found, w_processed, w_result, w_cancelled,
                   w_svc_cancelled, w_term_req, w_cancel_pc, w_cancel_at>>
    /\ UNCHANGED <<avars, NotWorker>>

\* run, lines 40-41
WExcCheck(w) ==
    /\ w_pc[w] = "exc_check"
    /\ w_pc' = [w_pc EXCEPT ![w] =
                   IF error_allowed(w_cancelled[w]) THEN "emit_error" ELSE "done"]
    /\ UNCHANGED <<w_idx, w_line, w_found, w_processed, w_result, w_cancelled,
                   w_svc_cancelled, w_signals, w_term_req, w_cancel_pc, w_cancel_at>>
    /\ UNCHANGED <<avars, NotWorker>>

\* run, line 42: str(e) of the OSError of the listing; run returns
WEmitError(w) ==
    /\ w_pc[w] = "emit_error"
    /\ w_pc' = [w_pc EXCEPT ![w] = "done"]
    /\ w_signals' = [w_signals EXCEPT ![w] = Append(@, <<"search_error", "OSError">>)]
    /\ UNCHANGED <<w_idx, w_line, w_found, w_processed, w_result, w_cancelled,
                   w_svc_cancelled, w_term_req, w_cancel_pc, w_cancel_at>>
    /\ UNCHANGED <<avars, NotWorker>>

\* the steps of the worker's thread
WRun(w) ==
    \/ WBegin(w)
    \/ WLoop(w)
    \/ WScanLine(w)
    \/ WPostLoop(w)
    \/ WFinCheck(w)
    \/ WEmitFinished(w)
    \/ WExcCheck(w)
    \/ WEmitError(w)

(***************************************************************************)
(* AsyncSearchService (async_search_service.py).  cancel_search blocks in  *)
(* QThread.wait while the worker goes on; a wait returns when the worker   *)
(* has finished or when its timeout has elapsed.                           *)
(***************************************************************************)
AsyncInit ==
    /\ current_worker = 0
    /\ a_pc = "idle"
    /\ a_call = "none"

\* is_searching(), lines 146-148
is_searching == current_worker # 0 /\ isRunning(current_worker)

\* a cancel_search that returns without forgetting its worker
EndOfCancelSearch_keeps_worker(call) ==
    /\ a_pc' = "idle"
    /\ a_call' = "none"
    /\ IF call = "start_search"
       THEN /\ n_workers' = n_workers + 1
            /\ w_pc' = [w_pc EXCEPT ![n_workers + 1] = "new"]
            /\ current_worker' = n_workers + 1
       ELSE UNCHANGED <<current_worker, n_workers, w_pc>>

\* the end of cancel_search, line 144, and, in start_search, lines 130-131
EndOfCancelSearch(call) ==
    /\ a_pc' = "idle"
    /\ a_call' = "none"
    /\ IF call = "start_search"
       THEN /\ n_workers' = n_workers + 1
            /\ w_pc' = [w_pc EXCEPT ![n_workers + 1] = "new"]
            /\ current_worker' = n_workers + 1
       ELSE /\ current_worker' = 0
            /\ UNCHANGED <<n_workers, w_pc>>

\* cancel_search up to its first wait, lines 135-137, or to its end when no
\* worker is running
BeginCancelSearch(call) ==
    IF current_worker # 0 /\ isRunning(current_worker)
    THEN /\ cancel(current_worker)
         /\ a_pc' = "wait3000"
         /\ a_call' = call
         /\ UNCHANGED <<current_worker, n_workers, w_pc>>
    ELSE /\ EndOfCancelSearch(call)
         /\ UNCHANGED <<w_cancelled, w_svc_cancelled, w_cancel_pc, w_cancel_at>>

\* start_search, lines 124-131
AStartSearch ==
    /\ a_pc = "idle"
    /\ n_workers < MaxWorkers
    /\ BeginCancelSearch("start_search")
    /\ UNCHANGED <<w_idx, w_line, w_found, w_processed, w_result, w_signals, w_term_req>>
    /\ UNCHANGED NotWorker

\* cancel_search, lines 133-144, also what cleanup calls
ACancelSearch ==
    /\ a_pc = "idle"
    /\ BeginCancelSearch("cancel_search")
    /\ UNCHANGED <<w_idx, w_line, w_found, w_processed, w_result, w_signals, w_term_req>>
    /\ UNCHANGED NotWorker

\* wait(3000) returns, lines 137-142
AWait3000 ==
    /\ a_pc = "wait3000"
    /\ IF isRunning(current_worker)
       THEN /\ w_term_req' = [w_term_req EXCEPT ![current_worker] = TRUE]
            /\ a_pc' = "wait1000"
            /\ UNCHANGED <<a_call, current_worker, n_workers, w_pc>>
       ELSE /\ EndOfCancelSearch(a_call)
            /\ UNCHANGED w_term_req
    /\ UNCHANGED <<w_idx, w_line, w_found, w_processed, w_result, w_cancelled,
                   w_svc_cancelled, w_signals, w_cancel_pc, w_cancel_at>>
    /\ UNCHANGED NotWorker

\* wait(1000) returns, lines 142-144
AWait1000 ==
    /\ a_pc = "wait1000"
    /\ EndOfCancelSearch(a_call)
    /\ UNCHANGED <<w_idx, w_line, w_found, w_processed, w_result, w_cancelled,
                   w_svc_cancelled, w_signals, w_term_req, w_cancel_pc, w_cancel_at>>
    /\ UNCHANGED NotWorker

\* QThread.terminate() takes effect: the thread is killed where it stands
WTerminated(w) ==
    /\ w_term_req[w]
    /\ isRunning(w)
    /\ w_pc' = [w_pc EXCEPT ![w] = "terminated"]
    /\ UNCHANGED <<w_idx, w_line, w_found, w_processed, w_result, w_cancelled,
                   w_svc_cancelled, w_signals, w_term_req, w_cancel_pc, w_cancel_at>>
    /\ UNCHANGED <<avars, NotWorker>>

(***************************************************************************)
(* The matching functions, each applied once to arguments drawn from       *)
(* small sets.                                                             *)
(***************************************************************************)
MatchTexts ==
    { <<"a", "a", "a">>, <<"a", "A", "a">>, <<"a", "[", "b">>, <<"A", "[", "a", "[">>,
      <<"b", ".", "a">>, <<"b", ".", "A">>, <<"b", "a">>, <<"b", ".", "b">>, <<>> }

MatchPatterns ==
    { <<"a">>, <<"a", "a">>, <<"a", "[">>, <<"[">>, <<".">>, <<"A", ".">> }

ExtensionLists ==
    { <<>>, << <<"a">> >>, << <<".", "a">> >>, << <<".", "A">> >>, << <<"A">> >>,
      << <<".", "b">>, <<"a">> >> }

MatchInputs ==
    [text : MatchTexts, pattern : MatchPatterns, use_regex : BOOLEAN,
     case_sensitive : BOOLEAN, extensions : ExtensionLists]

MatchInit ==
    /\ fn_pc = "ready"
    /\ fn_in \in MatchInputs
    /\ fn_out = None
    /\ built_targets = <<>>
    /\ n_adds = 0

\* _matches_filename(text, pattern, use_regex, case_sensitive)
ApplyMatchesFilename ==
    /\ fn_pc = "ready"
    /\ fn_pc' = "applied"
    /\ fn_out' = [fn |-> "matches_filename",
                  value |-> matches_filename(fn_in.text, fn_in.pattern, fn_in.use_regex,
                                             fn_in.case_sensitive)]
    /\ UNCHANGED <<fn_in, built_targets, n_adds>>
    /\ UNCHANGED NotModels

\* _find_line_matches(text, pattern, use_regex, case_sensitive)
ApplyFindLineMatches ==
    /\ fn_pc = "ready"
    /\ fn_pc' = "applied"
    /\ fn_out' = [fn |-> "find_line_matches",
                  value |-> find_line_matches(fn_in.text, fn_in.pattern, fn_in.use_regex,
                                              fn_in.case_sensitive)]
    /\ UNCHANGED <<fn_in, built_targets, n_adds>>
    /\ UNCHANGED NotModels

\* _perform_replacement(text, pattern, "b", use_regex, case_sensitive)
ApplyPerformReplacement ==
    /\ fn_pc = "ready"
    /\ fn_pc' = "applied"
    /\ fn_out' = [fn |-> "perform_replacement",
                  value |-> perform_replacement(fn_in.text, fn_in.pattern, <<"b">>,
                                                fn_in.use_regex, fn_in.case_sensitive)]
    /\ UNCHANGED <<fn_in, built_targets, n_adds>>
    /\ UNCHANGED NotModels

\* _matches_criteria for the file named text and SearchCriteria(file_extensions = extensions)
ApplyMatchesCriteria ==
    /\ fn_pc = "ready"
    /\ fn_pc' = "applied"
    /\ fn_out' = [fn |-> "matches_criteria",
                  value |-> matches_criteria(Entry(fn_in.text, TRUE, TRUE, <<>>),
                                             get_file_info(Entry(fn_in.text, TRUE, TRUE, <<>>)),
                                             SearchCriteria(fn_in.extensions))]
    /\ UNCHANGED <<fn_in, built_targets, n_adds>>
    /\ UNCHANGED NotModels

(***************************************************************************)
(* ReplaceOperation.add_target_file (replace_models.py).  A FileMatch is a *)
(* dataclass: two are equal when all their fields are.                     *)
(***************************************************************************)
TargetMatches ==
    {[file_path |-> path, modified_date |-> 1, file_size |-> size, matches |-> <<>>] :
        path \in {FileF, FileG}, size \in {1, 2}}

TargetsInit ==
    /\ fn_pc = "parked"
    /\ fn_in = None
    /\ fn_out = None
    /\ built_targets = <<>>
    /\ n_adds = 0

\* add_target_file, lines 27-30
add_target_file(target_files, file_match) ==
    IF \E i \in 1..Len(target_files) : target_files[i] = file_match
    THEN target_files
    ELSE Append(target_files, file_match)

AddTargetFile ==
    /\ n_adds < MaxAdds
    /\ \E file_match \in TargetMatches :
           built_targets' = add_target_file(built_targets, file_match)
    /\ n_adds' = n_adds + 1
    /\ UNCHANGED <<fn_pc, fn_in, fn_out>>
    /\ UNCHANGED NotModels

(***************************************************************************)
(* Specifications: each runs one service; the state of the others is       *)
(* left as constructed.                                                    *)
(***************************************************************************)
ReplaceParked ==
    /\ fs = <<>>
    /\ operation = None
    /\ r_pc = "idle"
    /\ r_idx = 1
    /\ r_cancelled = FALSE
    /\ result = EmptyReplaceResult
    /\ r_calls = 0
    /\ restore_ret = None
    /\ restore_arg = None
    /\ pre_fs = <<>>
    /\ bk_src = <<>>
    /\ last_call = "none"
    /\ prev_run = [after_replace |-> FALSE, result |-> EmptyReplaceResult]
    /\ preview_results = <<>>

DirParked ==
    /\ entries = <<>>
    /\ listing_raises = FALSE
    /\ criteria = None

ModelsParked ==
    /\ fn_pc = "parked"
    /\ fn_in = None
    /\ fn_out = None
    /\ built_targets = <<>>
    /\ n_adds = 0

WorkerParked ==
    /\ ModelsParked
    /\ WorkerInit
    /\ AsyncInit
    /\ w_pc = [w \in Workers |-> "none"]
    /\ n_workers = 0

InitReplace == ReplaceInit /\ DirParked /\ SearchInit /\ WorkerParked

NextReplace ==
    \/ ReplaceBegin
    \/ ReplaceFile
    \/ ReplaceReturn
    \/ ReplaceCancel
    \/ RestoreAny

SpecReplace == InitReplace /\ [][NextReplace]_vars

\* preview_replace and cancel
InitPreview ==
    /\ fs \in PreviewFiles
    /\ operation \in PreviewOperations
    /\ r_pc = "idle"
    /\ r_idx = 1
    /\ r_cancelled = FALSE
    /\ result = EmptyReplaceResult
    /\ r_calls = 0
    /\ restore_ret = None
    /\ restore_arg = None
    /\ pre_fs = fs
    /\ bk_src = <<>>
    /\ last_call = "none"
    /\ prev_run = [after_replace |-> FALSE, result |-> EmptyReplaceResult]
    /\ preview_results = <<>>
    /\ DirParked
    /\ SearchInit
    /\ WorkerParked

NextPreview ==
    \/ PreviewBegin
    \/ PreviewFile
    \/ PreviewReturn
    \/ ReplaceCancel

SpecPreview == InitPreview /\ [][NextPreview]_vars

\* One call of one matching function.
InitMatch ==
    /\ MatchInit
    /\ ReplaceParked
    /\ DirParked
    /\ SearchInit
    /\ WorkerInit
    /\ AsyncInit
    /\ w_pc = [w \in Workers |-> "none"]
    /\ n_workers = 0

NextMatch ==
    \/ ApplyMatchesFilename
    \/ ApplyFindLineMatches
    \/ ApplyPerformReplacement
    \/ ApplyMatchesCriteria

SpecMatch == InitMatch /\ [][NextMatch]_vars

\* A ReplaceOperation filled by add_target_file calls.
InitTargets == TargetsInit /\ ReplaceParked /\ DirParked /\ SearchInit /\ WorkerParked

NextTargets == AddTargetFile

SpecTargets == InitTargets /\ [][NextTargets]_vars

\* replace, preview_replace and cancel of one FileReplaceService
InitCancelFlag ==
    /\ fs \in PreviewFiles
    /\ operation \in FlagOperations
    /\ r_pc = "idle"
    /\ r_idx = 1
    /\ r_cancelled = FALSE
    /\ result = EmptyReplaceResult
    /\ r_calls = 0
    /\ restore_ret = None
    /\ restore_arg = None
    /\ pre_fs = fs
    /\ bk_src = <<>>
    /\ last_call = "none"
    /\ prev_run = [after_replace |-> FALSE, result |-> EmptyReplaceResult]
    /\ preview_results = <<>>
    /\ DirParked
    /\ SearchInit
    /\ WorkerParked

NextCancelFlag ==
    \/ ReplaceBegin
    \/ ReplaceFile
    \/ ReplaceReturn
    \/ ReplaceCancel
    \/ PreviewBegin
    \/ PreviewFile
    \/ PreviewReturn

SpecCancelFlag == InitCancelFlag /\ [][NextCancelFlag]_vars

InitSearch == DirInit /\ SearchInit /\ ReplaceParked /\ WorkerParked

NextSearch ==
    \/ SearchBegin
    \/ SearchLoop
    \/ SearchScanLine
    \/ SearchCancel

SpecSearch == InitSearch /\ [][NextSearch]_vars


\* One SearchWorker, constructed by its user (worker 1), started and
\* cancelled directly.  A started thread is scheduled until run() returns.
InitWorker ==
    /\ DirInit
    /\ SearchInit
    /\ ReplaceParked
    /\ WorkerInit
    /\ AsyncInit
    /\ w_pc = [w \in Workers |-> IF w = 1 THEN "new" ELSE "none"]
    /\ n_workers = 1
    /\ ModelsParked

NextWorker ==
    \E w \in Workers :
        \/ WStart(w)
        \/ WCancel(w)
        \/ WBegin(w)
        \/ WLoop(w)
        \/ WScanLine(w)
        \/ WPostLoop(w)
        \/ WFinCheck(w)
        \/ WEmitFinished(w)
        \/ WExcCheck(w)
        \/ WEmitError(w)

SpecWorker ==
    InitWorker /\ [][NextWorker]_vars /\ \A w \in Workers : WF_vars(WRun(w))

\* The two searches over the same folder: FileSearchService.search called
\* directly and one SearchWorker.
NextSearches ==
    \/ SearchBegin
    \/ SearchLoop
    \/ SearchScanLine
    \/ SearchCancel
    \/ \E w \in Workers :
        \/ WStart(w)
        \/ WCancel(w)
        \/ WBegin(w)
        \/ WLoop(w)
        \/ WScanLine(w)
        \/ WPostLoop(w)
        \/ WFinCheck(w)
        \/ WEmitFinished(w)
        \/ WExcCheck(w)
        \/ WEmitError(w)

SpecSearches == InitWorker /\ [][NextSearches]_vars

\* An AsyncSearchService and the workers it hands out.
AsyncFolders ==
    { <<Entry(<<"a", ".", "t">>, TRUE, TRUE, << <<"a">> >>)>> }

AsyncCriterias == {c \in Criterias : c.filename_pattern = None}

InitAsync ==
    /\ entries \in AsyncFolders
    /\ listing_raises \in BOOLEAN
    /\ criteria \in AsyncCriterias
    /\ SearchInit
    /\ ReplaceParked
    /\ WorkerParked

NextAsync ==
    \/ AStartSearch
    \/ ACancelSearch
    \/ AWait3000
    \/ AWait1000
    \/ \E w \in Workers :
        \/ WStart(w)
        \/ WTerminated(w)
        \/ WBegin(w)
        \/ WLoop(w)
        \/ WScanLine(w)
        \/ WPostLoop(w)
        \/ WFinCheck(w)
        \/ WEmitFinished(w)
        \/ WExcCheck(w)
        \/ WEmitError(w)

SpecAsync ==
    InitAsync /\ [][NextAsync]_vars /\ \A w \in Workers : WF_vars(WRun(w))

(***************************************************************************)
(* Properties of FileReplaceService (SpecReplace).                         *)
(***************************************************************************)
ReplaceReturned == r_pc = "idle" /\ last_call = "replace"

\* C1: after replace returns, every backup it made holds the content its file
\* had before the replace call (the backup is taken before the file is
\* overwritten).
C1_BackupHoldsOriginalContent ==
    ReplaceReturned =>
        \A i \in 1..Len(result.backup_files) :
            /\ result.backup_files[i] \in DOMAIN fs
            /\ fs[result.backup_files[i]] = pre_fs[bk_src[i]]

\* C2: replace with create_backup and the default suffix, then
\* restore_from_backup on a backup path replace returned: restore_from_backup
\* returns true and the file has the content it had before replace.
C2_RestoreRoundTrip ==
    (/\ last_call = "restore"
     /\ operation.create_backup
     /\ operation.backup_suffix = DefaultBackupSuffix) =>
        \A i \in 1..Len(result.backup_files) :
            restore_arg = result.backup_files[i] =>
                /\ restore_ret = TRUE
                /\ fs[bk_src[i]] = pre_fs[bk_src[i]]

\* the paths a result lists as failed
FailedPaths(res) == {res.failed_files[j][1] : j \in 1..Len(res.failed_files)}

ProcessedPaths(res) == {res.processed_files[j] : j \in 1..Len(res.processed_files)}

\* the loop of the replace call that produced res ran over every target
Complete(res) ==
    Len(res.processed_files) + Len(res.failed_files) = Len(operation.target_files)

\* C16: when no cancel is issued, replace returns (it never raises) with
\* every target recorded once, as processed or as failed: a target that is
\* missing is in failed_files with a message, and the targets after it are
\* attempted all the same.
C16_EveryTargetRecorded ==
    (ReplaceReturned /\ ~r_cancelled) =>
        /\ Complete(result)
        /\ \A i \in 1..Len(operation.target_files) :
               LET path == operation.target_files[i]
               IN  /\ path \in ProcessedPaths(result) \cup FailedPaths(result)
                   /\ path \notin DOMAIN pre_fs => path \in FailedPaths(result)
        /\ \A j \in 1..Len(result.failed_files) : result.failed_files[j][2] # None

\* C16 witness: the first target failed and the one after it was processed
C16_Witness ==
    /\ ReplaceReturned
    /\ ~r_cancelled
    /\ operation.target_files = <<FileM, FileF>>
    /\ FailedPaths(result) = {FileM}
    /\ result.processed_files = <<FileF>>
    /\ result.total_replacements > 0

\* C17: in the result replace returns, no path is both in processed_files and
\* in failed_files.
C17_ProcessedFailedDisjoint ==
    ReplaceReturned => ProcessedPaths(result) \cap FailedPaths(result) = {}

\* a step of the loop of replace on a file in which the pattern has no match
ZeroCountStep ==
    /\ r_pc = "loop"
    /\ r_idx' = r_idx + 1
    /\ operation.target_files[r_idx] \in DOMAIN fs
    /\ perform_replacement(fs[operation.target_files[r_idx]], operation.search_pattern,
                           operation.replace_text, operation.use_regex,
                           operation.case_sensitive)[2] = 0

\* C18: when the replacement count of a file is 0, replace writes no file and
\* makes no backup, and records the path in processed_files, adding 0 to
\* total_replacements and nothing to failed_files.
C18_ZeroCountIsSuccess ==
    [][ZeroCountStep =>
           /\ fs' = fs
           /\ result' = [result EXCEPT
                             !.processed_files = Append(@, operation.target_files[r_idx])]]_vars

\* C18 witness: a replace with create_backup has returned after processing
\* two files in which nothing was replaced
C18_Witness ==
    /\ ReplaceReturned
    /\ operation.create_backup
    /\ Len(result.processed_files) = 2
    /\ result.total_replacements = 0
    /\ result.backup_files = <<>>
    /\ fs = pre_fs

\* a replace has returned that was called right after a replace had returned,
\* both having run over every target
SecondRun ==
    /\ ReplaceReturned
    /\ prev_run.after_replace
    /\ Complete(prev_run.result)
    /\ Complete(result)

\* the files are as they were when the last replace was called
FilesAsBefore == \A path \in DOMAIN pre_fs : path \in DOMAIN fs /\ fs[path] = pre_fs[path]

NoMatchLeft ==
    \A i \in 1..Len(operation.target_files) :
        LET path == operation.target_files[i]
        IN  path \in DOMAIN pre_fs =>
                perform_replacement(pre_fs[path], operation.search_pattern,
                                    operation.replace_text, operation.use_regex,
                                    operation.case_sensitive)[2] = 0

BackupName(path, suffix, k) ==
    path \o suffix \o (IF k = 0 THEN <<>> ELSE <<".">> \o IntStr(k))

TargetPaths == {operation.target_files[i] : i \in 1..Len(operation.target_files)}

\* C20: no step of a replace (or restore) removes or changes a file that is
\* not a target, so no backup that exists is overwritten; and every file a
\* step creates is the first free name among path + suffix,
\* path + suffix + ".1", path + suffix + ".2", ... for the target at hand.
C20_BackupsNeverOverwritten ==
    [][/\ \A path \in DOMAIN fs \ TargetPaths :
              path \in DOMAIN fs' /\ fs'[path] = fs[path]
       /\ \A path \in DOMAIN fs' \ DOMAIN fs :
              \E k \in 0..Cardinality(DOMAIN fs) :
                  /\ path = BackupName(operation.target_files[r_idx],
                                       operation.backup_suffix, k)
                  /\ \A j \in 0..(k - 1) :
                         BackupName(operation.target_files[r_idx],
                                    operation.backup_suffix, j) \in DOMAIN fs]_vars

\* C20 witness: a backup existed, and two replace calls have put their backups
\* next to it under the names .bak.1 and .bak.2
C20_Witness ==
    /\ ReplaceReturned
    /\ OldBackupF \in DOMAIN fs
    /\ fs[OldBackupF] = <<"b">>
    /\ (OldBackupF \o <<".", "1">>) \in DOMAIN fs
    /\ (OldBackupF \o <<".", "2">>) \in DOMAIN fs

\* a target that can be read and has a line in which something is replaced
HasChange(path) ==
    /\ path \in DOMAIN fs
    /\ \E i \in 1..Len(ReadLines(fs[path])) :
           perform_replacement(ReadLines(fs[path])[i], operation.search_pattern,
                               operation.replace_text, operation.use_regex,
                               operation.case_sensitive)[2] > 0

\* C21: preview_replace modifies no file and makes no backup, and what it
\* returns holds one entry for each target with at least one changed line,
\* in target order, and none for a target without changes.
C21_PreviewOnlyReports ==
    /\ [][(r_pc = "preview" \/ r_pc' = "preview") => fs' = fs]_vars
    /\ []((r_pc = "idle" /\ last_call = "preview") =>
             /\ [i \in 1..Len(preview_results) |-> preview_results[i].file_path]
                    = SelectSeq(operation.target_files, HasChange)
             /\ \A i \in 1..Len(preview_results) : preview_results[i].changes # <<>>)

\* how often a path occurs in a list of paths
Occurrences(paths, path) == Cardinality({i \in 1..Len(paths) : paths[i] = path})

\* C26: once cancel() has set the flag during replace, the loop reads and
\* modifies no further file and records nothing more (the file in progress
\* was completed in full before the flag is read); at every moment the
\* recorded paths, processed or failed, are a prefix of the target order.
C26_CancelStopsAtFileBoundary ==
    /\ [][(r_pc = "loop" /\ r_cancelled) => (fs' = fs /\ result' = result)]_vars
    /\ [](LET n == Len(result.processed_files) + Len(result.failed_files)
               done == SubSeq(operation.target_files, 1, n)
           IN  /\ n <= Len(operation.target_files)
               /\ \A path \in TargetPaths :
                      Occurrences(result.processed_files, path)
                          + Cardinality({j \in 1..Len(result.failed_files) :
                                            result.failed_files[j][1] = path})
                      = Occurrences(done, path))

\* C26 witness: a replace over two files was cancelled after the first, which
\* was rewritten and recorded; the second still holds its matches
C26_Witness ==
    /\ ReplaceReturned
    /\ r_cancelled
    /\ operation.target_files = <<FileF, FileG>>
    /\ result.processed_files = <<FileF>>
    /\ result.failed_files = <<>>
    /\ result.total_replacements > 0
    /\ fs[FileF] # pre_fs[FileF]
    /\ fs[FileG] = pre_fs[FileG]
    /\ perform_replacement(fs[FileG], operation.search_pattern, operation.replace_text,
                           operation.use_regex, operation.case_sensitive)[2] > 0

\* C30: restore_from_backup returns false and changes no file when the
\* original path cannot be derived from the backup path or the derived
\* original does not exist; when it returns true, the original existed and
\* now has the content of the backup, and nothing else changed.
C30_RestoreFailsSafely ==
    [][(last_call = "replace" /\ last_call' = "restore") =>
           LET backup_path == restore_arg'
               original_path == get_original_path_from_backup(backup_path)
               no_original == IF original_path = None THEN TRUE
                              ELSE original_path \notin DOMAIN fs
           IN  /\ restore_ret' \in BOOLEAN
               /\ no_original => (restore_ret' = FALSE /\ fs' = fs)
               /\ restore_ret' = TRUE =>
                      /\ ~no_original
                      /\ backup_path \in DOMAIN fs
                      /\ fs' = [fs EXCEPT ![original_path] = fs[backup_path]]
               /\ restore_ret' = FALSE => fs' = fs]_vars

\* C30 witness: restore_from_backup was called on an existing backup whose
\* original does not exist, and returned false
C30_Witness ==
    /\ last_call = "restore"
    /\ restore_arg = OldBackupM
    /\ OldBackupM \in DOMAIN fs
    /\ FileM \notin DOMAIN fs
    /\ restore_ret = FALSE

\* C33: from every backup path that replace returns in backup_files,
\* whatever the operation's backup_suffix and the number appended to the
\* name, _get_original_path_from_backup derives the path of the file the
\* backup was made from.
C33_BackupPathDerivesOriginal ==
    \A i \in 1..Len(result.backup_files) :
        LET original_path == get_original_path_from_backup(result.backup_files[i])
        IN  IF original_path = None THEN FALSE ELSE original_path = bk_src[i]

\* the text with the replaced lines of a preview put in place of the
\* original ones, line ends kept
RECURSIVE ApplyChangesFrom(_, _, _)
ApplyChangesFrom(text, line_num, changes) ==
    IF text = <<>>
    THEN <<>>
    ELSE LET ends == {i \in 1..Len(text) : text[i] = NL}
             pos == IF ends = {} THEN 0 ELSE CHOOSE i \in ends : \A j \in ends : i <= j
             line == IF pos = 0 THEN text ELSE SubSeq(text, 1, pos - 1)
             hits == {k \in 1..Len(changes) : changes[k].line_number = line_num}
             new_line == IF hits = {} THEN line ELSE changes[CHOOSE k \in hits : TRUE].replaced
         IN  IF pos = 0
             THEN new_line
             ELSE new_line \o <<NL>>
                      \o ApplyChangesFrom(SubSeq(text, pos + 1, Len(text)), line_num + 1, changes)

PreviewReturned == r_pc = "idle" /\ last_call = "preview"

\* C34: for every file a preview reports, total_replacements equals the count
\* replace returns for that file and the previewed lines put in place give
\* the content replace writes; a readable target the preview does not report
\* is one in which replace replaces nothing.
C34_PreviewAgreesWithReplace ==
    (PreviewReturned /\ ~r_cancelled) =>
        /\ \A i \in 1..Len(preview_results) :
               LET file_preview == preview_results[i]
                   r == replace_in_file(fs, file_preview.file_path, operation)
               IN  /\ file_preview.total_replacements = r.count
                   /\ ApplyChangesFrom(fs[file_preview.file_path], 1, file_preview.changes)
                          = r.files[file_preview.file_path]
        /\ \A path \in TargetPaths \cap DOMAIN fs :
               (\A i \in 1..Len(preview_results) : preview_results[i].file_path # path) =>
                   replace_in_file(fs, path, operation).count = 0

\* C39: preview_replace never clears the cancel flag (only the start of a
\* replace does); a preview that finds the flag set, because cancel() was
\* called before it or during it, adds nothing more to what it returns, so
\* one started after cancel() returns an empty list until a replace has
\* cleared the flag; every replace starts with the flag cleared.
C39_PreviewKeepsCancelFlag ==
    /\ [][(r_cancelled /\ ~r_cancelled') => (r_pc = "idle" /\ r_pc' = "loop")]_vars
    /\ [][(r_pc = "idle" /\ r_pc' = "preview") => preview_results' = <<>>]_vars
    /\ [][(r_pc = "preview" /\ r_cancelled) => preview_results' = preview_results]_vars
    /\ [][(r_pc = "idle" /\ r_pc' = "loop") => ~r_cancelled']_vars

\* C39 witness: after a cancelled replace, a preview has returned an empty
\* list without looking at its first target, in which it would report changes
C39_Witness ==
    /\ PreviewReturned
    /\ r_calls >= 1
    /\ r_cancelled
    /\ r_idx = 1
    /\ preview_results = <<>>
    /\ operation.target_files # <<>>
    /\ HasChange(operation.target_files[1])

\* C31: a path that replace records in failed_files names a file whose
\* content is what it was when replace was called (and that exists iff it
\* existed then), whatever made it fail, a failure of the backup included.
C31_FailedFilesUnchanged ==
    (r_pc = "loop" \/ ReplaceReturned) =>
        \A j \in 1..Len(result.failed_files) :
            LET path == result.failed_files[j][1]
            IN  IF path \in DOMAIN pre_fs
                THEN path \in DOMAIN fs /\ fs[path] = pre_fs[path]
                ELSE path \notin DOMAIN fs

(***************************************************************************)
(* Properties of FileSearchService (SpecSearch).                           *)
(***************************************************************************)
\* cancel() was issued while search() iterated, after at least one entry was
\* counted and before all were
CancelledMidway == 0 < s_cancel_at /\ s_cancel_at < Len(entries)

C38_CancelDuringScanKeepsPartialMatch ==
    /\ [][(s_pc = "scan" /\ s_cancelled
              /\ <<s_pc, s_idx, s_line, s_found, s_result>>'
                     # <<s_pc, s_idx, s_line, s_found, s_result>>) =>
              /\ s_pc' = "loop"
              /\ s_result' = [s_result EXCEPT !.matches =
                                 Append(@, FileMatch(entries[s_idx],
                                                     get_file_info(entries[s_idx]), s_found))]]_vars
    /\ [][(s_pc = "loop" /\ s_cancelled) => (s_result' = s_result /\ s_pc' # "scan")]_vars

\* C38 witness: a search cancelled after the first line of a.t, which has
\* occurrences in both its lines, has returned with the two of the first line
C38_Witness ==
    /\ s_pc = "done"
    /\ s_cancelled
    /\ s_result.matches # <<>>
    /\ s_result.total_files_scanned < Len(entries)
    /\ LET last == s_result.matches[Len(s_result.matches)]
       IN  /\ last.file_path = <<"a", ".", "t">>
           /\ Len(last.matches) = 2

\* C9: cancel() before search() makes the search over a folder of N >= 1
\* files stop early: total_files_scanned < N.
C9_CancelBeforeSearchStopsEarly ==
    (/\ s_pc = "done"
     /\ s_cancel_before
     /\ Len(entries) >= 1
     /\ \A i \in 1..Len(entries) : entries[i].is_file /\ entries[i].stat_ok) =>
        s_result.total_files_scanned < Len(entries)

\* C10: with a content pattern, an uncancelled search returns as matches only
\* files in which the pattern occurs at least once.
C10_MatchesHaveOccurrences ==
    (s_pc = "done" /\ ~s_cancelled /\ Truthy(criteria.content_pattern)) =>
        \A i \in 1..Len(s_result.matches) : Len(s_result.matches[i].matches) >= 1

\* the entries of the folder that are no directories
NonDirectories == {i \in 1..Len(entries) : entries[i].is_file}

\* C11: a search that runs to completion returns total_files_scanned equal to
\* the number of non-directory entries under the root: directories are not
\* counted, every file is, matched or not.
C11_ScannedCountsFilesOnly ==
    (s_pc = "done" /\ ~s_cancelled) =>
        s_result.total_files_scanned = Cardinality(NonDirectories)

\* C25: when listing the target directory raises a permission or I/O error,
\* search does not raise: it returns a SearchResult.
C25_ListingErrorAbsorbed == listing_raises => s_pc # "raised"

(***************************************************************************)
(* Properties of the matching functions (SpecMatch).                       *)
(***************************************************************************)
\* what the function that was applied returns in literal mode
LiteralValue ==
    CASE fn_out.fn = "matches_filename" ->
             matches_filename(fn_in.text, fn_in.pattern, FALSE, fn_in.case_sensitive)
      [] fn_out.fn = "find_line_matches" ->
             find_line_matches(fn_in.text, fn_in.pattern, FALSE, fn_in.case_sensitive)
      [] fn_out.fn = "perform_replacement" ->
             perform_replacement(fn_in.text, fn_in.pattern, <<"b">>, FALSE,
                                 fn_in.case_sensitive)

RegexFunctions == {"matches_filename", "find_line_matches", "perform_replacement"}

BadPatternApplied ==
    /\ fn_pc = "applied"
    /\ fn_out.fn \in RegexFunctions
    /\ fn_in.use_regex
    /\ ReError(fn_in.pattern)

\* C22: with use_regex true and a pattern that does not compile,
\* _matches_filename, _find_line_matches and _perform_replacement return
\* (they do not raise) exactly what they return in literal mode for the same
\* text, pattern and case flag.
C22_BadRegexFallsBackToLiteral == BadPatternApplied => fn_out.value = LiteralValue

\* C22 witness: a replacement with a pattern that does not compile has
\* replaced an occurrence, as literal mode does
C22_Witness ==
    /\ BadPatternApplied
    /\ fn_out.fn = "perform_replacement"
    /\ fn_out.value[2] >= 1

\* C23: the occurrences _find_line_matches returns are in strictly increasing
\* start order and do not overlap: each starts at or after the end of the one
\* before.
C23_OccurrencesDoNotOverlap ==
    (fn_pc = "applied" /\ fn_out.fn = "find_line_matches") =>
        \A i \in 1..(Len(fn_out.value) - 1) :
            /\ fn_out.value[i].start < fn_out.value[i + 1].start
            /\ fn_out.value[i].end <= fn_out.value[i + 1].start

\* C35: in literal mode the number of occurrences search reports for a file
\* (here a file of one line) equals the number of replacements replace makes
\* in it for the same pattern and case flag.
C35_SearchCountIsReplaceCount ==
    (fn_pc = "applied" /\ fn_out.fn = "find_line_matches" /\ ~fn_in.use_regex) =>
        Len(fn_out.value)
            = perform_replacement(fn_in.text, fn_in.pattern, <<"b">>, FALSE,
                                  fn_in.case_sensitive)[2]

\* an extension without its leading dot
StripDot(ext) == IF ext # <<>> /\ ext[1] = "." THEN Tail(ext) ELSE ext

\* two extension lists that differ in letter case and leading dots only
SameExtensions(e1, e2) ==
    /\ Len(e1) = Len(e2)
    /\ \A i \in 1..Len(e1) : LowerStr(StripDot(e1[i])) = LowerStr(StripDot(e2[i]))

\* C29: the extension filter gives the same answer for extension lists that
\* differ in letter case and leading dots only, and a file passes it iff its
\* lower-cased suffix is one of the lower-cased extensions with their dot.
C29_ExtensionFilterNormalized ==
    (fn_pc = "applied" /\ fn_out.fn = "matches_criteria") =>
        LET file == Entry(fn_in.text, TRUE, TRUE, <<>>)
        IN  /\ \A e2 \in ExtensionLists :
                   SameExtensions(fn_in.extensions, e2) =>
                       matches_criteria(file, get_file_info(file), SearchCriteria(e2))
                           = fn_out.value
            /\ fn_in.extensions # <<>> =>
                   (fn_out.value <=>
                       \E i \in 1..Len(fn_in.extensions) :
                           LowerStr(PathSuffix(fn_in.text))
                               = <<".">> \o LowerStr(StripDot(fn_in.extensions[i])))

\* C29 witness: the file b.A has passed the filter built from "a"
C29_Witness ==
    /\ fn_pc = "applied"
    /\ fn_out.fn = "matches_criteria"
    /\ fn_in.text = <<"b", ".", "A">>
    /\ fn_in.extensions = << <<"a">> >>
    /\ fn_out.value = TRUE

(***************************************************************************)
(* Properties of ReplaceOperation (SpecTargets).                           *)
(***************************************************************************)
\* C27: after any sequence of add_target_file calls, target_files holds no
\* two FileMatch entries with the same file path.
C27_TargetsUniqueByPath ==
    \A i, j \in 1..Len(built_targets) :
        i # j => built_targets[i].file_path # built_targets[j].file_path

(***************************************************************************)
(* Properties of both searches (SpecSearches).                             *)
(***************************************************************************)
\* C12: in every state of a search, synchronous or inside the worker, also
\* after a cancel, total_files_scanned is at least the number of FileMatch
\* entries of the result.
C12_ScannedAtLeastMatches ==
    /\ s_result.total_files_scanned >= Len(s_result.matches)
    /\ \A w \in Workers : w_result[w].total_files_scanned >= Len(w_result[w].matches)

\* both searches have completed and neither was cancelled
BothCompleted ==
    /\ s_pc = "done"
    /\ ~s_cancelled
    /\ ~w_cancelled[1]
    /\ \E i \in 1..Len(w_signals[1]) : w_signals[1][i][1] = "search_finished"

\* C37: for the same criteria and folder and without cancellation, the
\* SearchResult a SearchWorker delivers with search_finished has the same
\* matches in the same order and the same total_files_scanned as the result
\* FileSearchService.search returns.
C37_WorkerDeliversSearchResult ==
    BothCompleted =>
        \E i \in 1..Len(w_signals[1]) : w_signals[1][i] = <<"search_finished", s_result>>

\* C37 witness: both searches have completed over a folder with an entry
\* that did not match and two files that did, one with content matches
C37_Witness ==
    /\ BothCompleted
    /\ Len(s_result.matches) >= 2
    /\ s_result.total_files_scanned > Len(s_result.matches)
    /\ \E i \in 1..Len(s_result.matches) : s_result.matches[i].matches # <<>>

\* C12 witness: both searches were cancelled, after each had added a match
C12_Witness ==
    /\ s_pc = "done" /\ s_cancelled /\ Len(s_result.matches) >= 1
    /\ w_pc[1] = "done" /\ w_cancelled[1] /\ Len(w_result[1].matches) >= 1
    /\ w_result[1].total_files_scanned < Len(entries)

(***************************************************************************)
(* Properties of AsyncSearchService (SpecAsync).                           *)
(***************************************************************************)
\* C3: at most one SearchWorker handed out by the service is running at any
\* time, and a worker handed out by an earlier start_search is not running
\* once a later start_search has returned.
C3_OneWorkerRunning ==
    /\ \A w1, w2 \in Workers : w1 # w2 => ~(isRunning(w1) /\ isRunning(w2))
    /\ \A w \in Workers : w < n_workers => ~isRunning(w)

\* C13: in the state start_search returns in, is_searching() is true; once
\* the worker it returned has finished, is_searching() is false.
C13_SearchingAfterStart ==
    /\ [][(n_workers' = n_workers + 1) => is_searching']_vars
    /\ [](\A w \in Workers : (current_worker = w /\ w_pc[w] = "done") => ~is_searching)

\* C14: when cancel_search returns after a start_search on the same service,
\* the worker start_search returned has is_cancelled() true and
\* is_searching() is false.
C14_CancelAfterStart ==
    [][(current_worker # 0 /\ current_worker' = 0) =>
           (w_cancelled'[current_worker] /\ ~is_searching')]_vars

\* a step in which cleanup (cancel_search) returns
CleanupReturns ==
    \/ (ACancelSearch /\ a_pc' = "idle")
    \/ ((AWait3000 \/ AWait1000) /\ a_call = "cancel_search" /\ a_pc' = "idle")

\* C15: whenever cleanup returns, with or without an active search,
\* current_worker is None and is_searching() is false, and a cleanup called
\* when the service holds no worker (as after a first cleanup) changes nothing.
C15_CleanupIdempotent ==
    [][CleanupReturns =>
           /\ current_worker' = 0
           /\ ~is_searching'
           /\ (current_worker = 0 => UNCHANGED vars)]_vars

\* C15 witness: a cleanup that found a running search, cancelled it and
\* waited for it has returned, and a second worker was handed out and dropped
C15_Witness ==
    /\ a_pc = "idle"
    /\ current_worker = 0
    /\ n_workers = 2
    /\ w_cancel_pc[1] \notin {"", "new"}
    /\ w_pc[1] = "done"
    /\ w_pc[2] = "new"

(***************************************************************************)
(* Properties of SearchWorker (SpecWorker).                                *)
(***************************************************************************)
\* how many signals of one kind worker w has emitted
Count(w, kind) ==
    Cardinality({i \in 1..Len(w_signals[w]) : w_signals[w][i][1] = kind})

\* cancel() was first called while the worker ran and had not begun every
\* entry: before the listing, at the loop head with an entry left, or while
\* an entry was being scanned
CancelledEarly(w) ==
    \/ w_cancel_pc[w] \in {"begin", "scan"}
    \/ (w_cancel_pc[w] = "loop" /\ w_cancel_at[w] < Len(entries))

\* C4: when cancel() takes effect on a running worker before it has processed
\* every entry, the worker begins no further entry, never emits
\* search_finished, and is_cancelled() is true.
C4_CancelStopsWorker ==
    \A w \in Workers :
        CancelledEarly(w) =>
            /\ w_result[w].total_files_scanned = w_cancel_at[w]
            /\ Count(w, "search_finished") = 0
            /\ w_pc[w] # "emit_finished"
            /\ w_cancelled[w]

\* C4 witness: a worker cancelled inside the loop, after one entry, has returned
C4_Witness ==
    /\ w_cancel_pc[1] = "loop"
    /\ CancelledEarly(1)
    /\ w_cancel_at[1] >= 1
    /\ w_pc[1] = "done"

\* C32: once a cancel() call on a worker has returned, that worker emits no
\* search_finished, however the call interleaves with run.
C32_NoFinishedAfterCancel ==
    [][\A w \in Workers :
          w_cancelled[w] =>
              Count(w, "search_finished")' = Count(w, "search_finished")]_vars

\* C5: a run emits search_finished at most once, search_error at most once,
\* and never both.
C5_FinishedErrorExclusive ==
    \A w \in Workers :
        /\ Count(w, "search_finished") <= 1
        /\ Count(w, "search_error") <= 1
        /\ ~(Count(w, "search_finished") >= 1 /\ Count(w, "search_error") >= 1)

\* C5 witness: a run has returned after emitting search_finished
C5_Witness == w_pc[1] = "done" /\ Count(1, "search_finished") = 1

\* worker w has returned from run after emitting search_finished once, with
\* the result of the complete scan
FinishedOnce(w) ==
    /\ w_pc[w] = "done"
    /\ Count(w, "search_finished") = 1
    /\ \E i \in 1..Len(w_signals[w]) :
        /\ w_signals[w][i][1] = "search_finished"
        /\ w_signals[w][i][2] = w_result[w]
        /\ w_signals[w][i][2].total_files_scanned = Len(entries)

\* C6: a started worker that is never cancelled and whose search does not
\* raise eventually emits search_finished exactly once, with the result, and
\* stops running (worker 1 is the worker of SpecWorker).
C6_UncancelledWorkerFinishes ==
    (w_pc[1] = "begin" /\ ~listing_raises) ~> (w_cancelled[1] \/ FinishedOnce(1))

\* C6 witness: an uncancelled run has finished
C6_Witness == ~w_cancelled[1] /\ FinishedOnce(1) /\ Len(entries) >= 2

\* the percents of the progress_updated emissions of worker w, in order
ProgressIdx(w) == {i \in 1..Len(w_signals[w]) : w_signals[w][i][1] = "progress_updated"}

\* C24: within one run, the percents of successive progress_updated
\* emissions never decrease and each lies in 0..100.
C24_ProgressMonotone ==
    \A w \in Workers :
        \A i, j \in ProgressIdx(w) :
            /\ w_signals[w][i][2] \in 0..100
            /\ i < j => w_signals[w][i][2] <= w_signals[w][j][2]

\* C24 witness: a run over at least two files has emitted 0, 10, a percent
\* for each file and 100
C24_Witness ==
    /\ w_pc[1] = "done"
    /\ w_processed[1] >= 2
    /\ Cardinality(ProgressIdx(1)) >= 5
    /\ \E i \in ProgressIdx(1) : w_signals[1][i][2] = 100
    /\ \E i \in ProgressIdx(1) : w_signals[1][i][2] \in 11..89

\* the percents worker w has emitted, in order
ProgressValues(w) ==
    LET IsProgress(sig) == sig[1] = "progress_updated"
        emitted == SelectSeq(w_signals[w], IsProgress)
    IN  [i \in 1..Len(emitted) |-> emitted[i][2]]

\* worker w has emitted search_finished, as its last signal
FinishedLast(w) ==
    /\ Count(w, "search_finished") = 1
    /\ w_signals[w][Len(w_signals[w])][1] = "search_finished"

\* C36 as claimed: a run that completes with search_finished has emitted
\* progress 0 first, 10 second, then values between 10 and 90, and 100 last.
C36_ProgressCheckpoints ==
    \A w \in Workers :
        Count(w, "search_finished") >= 1 =>
            LET percents == ProgressValues(w)
                n == Len(percents)
            IN  /\ FinishedLast(w)
                /\ n >= 3
                /\ percents[1] = 0
                /\ percents[2] = 10
                /\ \A i \in 3..(n - 1) : percents[i] \in 10..90
                /\ percents[n] = 100

\* C36 amended: a run that completes with search_finished has emitted, before
\* it, progress 0 and then 100 when the listing is empty, and otherwise 0, 10,
\* after the k-th file whose information could be read 10 + (80 k) div total
\* (a value between 10 and 90), and 100 last.
C36_ProgressCheckpointsUnlessEmpty ==
    \A w \in Workers :
        Count(w, "search_finished") >= 1 =>
            /\ FinishedLast(w)
            /\ w_processed[w] <= Len(entries)
            /\ ProgressValues(w) =
                   IF Len(entries) = 0
                   THEN <<0, 100>>
                   ELSE <<0, 10>>
                            \o [k \in 1..w_processed[w] |-> 10 + (k * 80) \div Len(entries)]
                            \o <<100>>
            /\ \A k \in 1..w_processed[w] : 10 + (k * 80) \div Len(entries) \in 10..90

\* C36 witness: a run over two files or more, one of them unreadable, has
\* finished
C36_Witness ==
    /\ w_pc[1] = "done"
    /\ Count(1, "search_finished") = 1
    /\ Len(entries) >= 2
    /\ w_processed[1] >= 1
    /\ w_processed[1] < Len(entries)

\* C28: a run emits search_started exactly once, and before every other
\* signal of the run.
C28_StartedFirstOnce ==
    \A w \in Workers :
        w_signals[w] # <<>> =>
            /\ w_signals[w][1] = <<"search_started">>
            /\ Count(w, "search_started") = 1

\* C28 witness: a run has returned after emitting search_started, progress,
\* file_processed and search_finished
C28_Witness ==
    /\ w_pc[1] = "done"
    /\ Count(1, "file_processed") >= 1
    /\ Count(1, "progress_updated") >= 1
    /\ Count(1, "search_finished") = 1

\* the search of worker w raised and run has returned
RaisedAndReturned(w) == listing_raises /\ w_pc[w] = "done"

ErrorOnce(w) ==
    /\ Count(w, "search_error") = 1
    /\ \E i \in 1..Len(w_signals[w]) : w_signals[w][i] = <<"search_error", "OSError">>

CancelledBeforeHandler(w) == w_cancel_pc[w] \in {"new", "begin", "exc_check"}

=============================================================================
